---- MODULE Spec2Model ----
(***************************************************************************)
(* Model of scripts/shuffle/parser.py (parse_shuffle_file).                *)
(*                                                                         *)
(* Text is modelled character by character: a line is a sequence of        *)
(* one-character strings, so strip / startswith / find / rfind / slicing / *)
(* split are computed as Python computes them.  Python indices are         *)
(* 0-based; the helpers below take and return 0-based indices and convert  *)
(* to TLA+'s 1-based sequences internally.                                 *)
(*                                                                         *)
(* Python lists and dicts are objects that are shared by reference, so the *)
(* count tables live in a heap: `lists` holds the list objects, `dicts`    *)
(* the dict objects, and current_section / sections hold references        *)
(* (indices into `dicts`).                                                 *)
(***************************************************************************)
EXTENDS Integers, Sequences, FiniteSets, TLC

VARIABLES
    lines,             \* f.readlines(): the log, a sequence of lines
    section_size,      \* the section_size argument
    pc,                \* "start" | "body" | "done": position in parse_shuffle_file
    possibility_list,  \* sequence of tokens
    sections,          \* sequence of dict references
    current_section,   \* dict reference (0 before new_section() is first called)
    current_count,     \* shuffles counted into the current section
    start_index,       \* 0-based index of the first body line
    pos,               \* 0-based index of the next line of the body loop
    lists,             \* heap of list objects: reference r is lists[r]
    dicts,             \* heap of dict objects: reference d is dicts[d], a function key -> list reference
    accepted           \* history: for every counted line, its index and the output section it went to

vars == <<lines, section_size, pc, possibility_list, sections, current_section,
          current_count, start_index, pos, lists, dicts, accepted>>

\* the caller of parse_shuffle_file: main(), or a program that uses the
\* functions of parser.py and stats.py directly
VARIABLES
    step,              \* position of the caller
    history,           \* what every finished parse_shuffle_file call was given and returned
    calls,             \* history: the stats / plotter functions invoked, with their arguments
    fixed_counts,      \* result of stats.compute_fixed_counts
    error_metrics,     \* result of stats.compute_distribution_error_metrics
    chi_results        \* result of stats.compute_chi_square

cvars == <<step, history, calls, fixed_counts, error_metrics, chi_results>>

allvars == <<vars, cvars>>

---------------------------------------------------------------------------
(* Bounds of the model *)

\* longest log made of arbitrary lines
MaxLines == 2
\* longest body appended to a well-formed header (header line, marker line)
MaxBody == 3
\* largest section_size
MaxSectionSize == 2

---------------------------------------------------------------------------
(* Python string helpers, on sequences of characters *)

Whitespace == {" ", "\t", "\n"}

Range(s) == {s[i] : i \in 1..Len(s)}

RECURSIVE LStrip(_)
LStrip(s) == IF s # <<>> /\ Head(s) \in Whitespace THEN LStrip(Tail(s)) ELSE s

RECURSIVE RStrip(_)
RStrip(s) ==
    IF s # <<>> /\ s[Len(s)] \in Whitespace THEN RStrip(SubSeq(s, 1, Len(s) - 1)) ELSE s

\* str.strip()
Strip(s) == RStrip(LStrip(s))

\* str.startswith(prefix)
StartsWith(s, prefix) ==
    Len(s) >= Len(prefix) /\ SubSeq(s, 1, Len(prefix)) = prefix

\* sub in s
Contains(s, sub) ==
    \E i \in 1..(Len(s) - Len(sub) + 1) : SubSeq(s, i, i + Len(sub) - 1) = sub

\* str.find(c): 0-based index of the first c, -1 when there is none
Find(s, c) ==
    IF \E i \in 1..Len(s) : s[i] = c
    THEN (CHOOSE i \in 1..Len(s) : s[i] = c /\ \A j \in 1..(i - 1) : s[j] # c) - 1
    ELSE -1

\* str.rfind(c): 0-based index of the last c, -1 when there is none
RFind(s, c) ==
    IF \E i \in 1..Len(s) : s[i] = c
    THEN (CHOOSE i \in 1..Len(s) : s[i] = c /\ \A j \in (i + 1)..Len(s) : s[j] # c) - 1
    ELSE -1

\* a slice bound as Python normalises it: a negative bound counts from the end, then clamp
SliceBound(len, b) ==
    LET c == IF b < 0 THEN b + len ELSE b
    IN  IF c < 0 THEN 0 ELSE IF c > len THEN len ELSE c

\* s[start:stop] with 0-based, possibly negative, bounds
Slice(s, start, stop) ==
    SubSeq(s, SliceBound(Len(s), start) + 1, SliceBound(Len(s), stop))

\* str.split(): split on runs of whitespace, no empty tokens
RECURSIVE SplitFrom(_, _, _)
SplitFrom(s, i, cur) ==
    IF i > Len(s)
    THEN IF cur = <<>> THEN <<>> ELSE <<cur>>
    ELSE IF s[i] \in Whitespace
         THEN IF cur = <<>> THEN SplitFrom(s, i + 1, <<>>)
                            ELSE <<cur>> \o SplitFrom(s, i + 1, <<>>)
         ELSE SplitFrom(s, i + 1, Append(cur, s[i]))

Split(s) == SplitFrom(s, 1, <<>>)

---------------------------------------------------------------------------
(* The texts the parser looks for *)

Hash == <<"#">>
StartShuffle == <<"s", "t", "a", "r", "t", " ", "s", "h", "u", "f", "f", "l", "e">>
LPrefix == <<"l", " ", "=", " ", "[">>

\* line[start_idx + 1:end_idx].strip(), with start_idx = line.find('[') and end_idx = line.rfind(']')
Content(line) == Strip(Slice(line, Find(line, "[") + 1, RFind(line, "]")))

---------------------------------------------------------------------------
(* The lines the logs are made of, as f.readlines() returns them *)

NL == <<"\n">>

LineBlank      == <<" ">> \o NL
LineComment    == <<"#", " ", "c">> \o NL
LineMarker     == <<"#", " ">> \o StartShuffle \o NL
LineTextMarker == <<"x", " ">> \o StartShuffle \o NL
LineAB         == LPrefix \o <<"A", " ", "B", "]">> \o NL
LineBA         == <<" ", " ">> \o LPrefix \o <<"B", " ", "\t", "A", " ", "]", " ">> \o NL
LineAX         == LPrefix \o <<"A", " ", "X", "]">> \o NL
LineAA         == LPrefix \o <<"A", " ", "A", "]">> \o NL
LineABA        == LPrefix \o <<"A", " ", "B", " ", "A", "]">> \o NL
LineEmpty      == LPrefix \o <<" ", "]">> \o NL
LineUnclosed   == LPrefix \o <<"A", " ", "B">> \o NL

LineSet == {LineBlank, LineComment, LineMarker, LineTextMarker, LineAB, LineBA,
            LineAX, LineAA, LineABA, LineEmpty, LineUnclosed}

SeqsUpTo(S, k) == UNION {[1..m -> S] : m \in 0..k}

\* the logs parsed: every log of at most MaxLines lines, and every body of at
\* most MaxBody lines behind a header line and the marker line
Logs == SeqsUpTo(LineSet, MaxLines)
        \cup {<<LineAB, LineMarker>> \o b : b \in SeqsUpTo(LineSet, MaxBody)}

---------------------------------------------------------------------------
(* parse_shuffle_file *)

\* mutant: the header loop does not stop at the "start shuffle" comment
RECURSIVE HeaderScanPastMarker(_, _)
HeaderScanPastMarker(ls, i) ==
    IF i > Len(ls) THEN <<>>
    ELSE LET line == Strip(ls[i])
         IN  IF line = <<>> \/ StartsWith(line, Hash) THEN HeaderScanPastMarker(ls, i + 1)
             ELSE IF StartsWith(line, LPrefix)
                  THEN IF Content(line) # <<>> THEN Split(Content(line)) ELSE <<>>
                  ELSE HeaderScanPastMarker(ls, i + 1)

\* mutant: the header loop breaks only when the brackets hold something
RECURSIVE HeaderScanSkipEmpty(_, _)
HeaderScanSkipEmpty(ls, i) ==
    IF i > Len(ls) THEN <<>>
    ELSE LET line == Strip(ls[i])
         IN  IF line = <<>> THEN HeaderScanSkipEmpty(ls, i + 1)
             ELSE IF StartsWith(line, Hash)
                  THEN IF Contains(line, StartShuffle) THEN <<>>
                       ELSE HeaderScanSkipEmpty(ls, i + 1)
                  ELSE IF StartsWith(line, LPrefix) /\ Content(line) # <<>>
                       THEN Split(Content(line))
                       ELSE HeaderScanSkipEmpty(ls, i + 1)

\* the header loop from line i (1-based) on: the value of possibility_list when it ends
RECURSIVE HeaderScan(_, _)
HeaderScan(ls, i) ==
    IF i > Len(ls) THEN <<>>
    ELSE LET line == Strip(ls[i])
         IN  IF line = <<>> THEN HeaderScan(ls, i + 1)
             ELSE IF StartsWith(line, Hash)
                  THEN IF Contains(line, StartShuffle) THEN <<>>
                       ELSE HeaderScan(ls, i + 1)
                  ELSE IF StartsWith(line, LPrefix)
                       THEN IF Content(line) # <<>> THEN Split(Content(line)) ELSE <<>>
                       ELSE HeaderScan(ls, i + 1)

\* the start index loop: one past the first line containing "start shuffle", 0 when there is none
FindStartIndex(ls) ==
    IF \E i \in 1..Len(ls) : Contains(ls[i], StartShuffle)
    THEN CHOOSE i \in 1..Len(ls) :
            /\ Contains(ls[i], StartShuffle)
            /\ \A j \in 1..(i - 1) : ~Contains(ls[j], StartShuffle)
    ELSE 0

\* index (1-based) of the last occurrence of key in the list pl
LastIndex(pl, key) ==
    CHOOSE i \in 1..Len(pl) : pl[i] = key /\ \A j \in (i + 1)..Len(pl) : pl[j] # key

\* new_section(): the dict comprehension evaluates [0] * n once per element of
\* possibility_list, allocating one list each time; a repeated key keeps the last one
NewRows(pl) == [i \in 1..Len(pl) |-> [k \in 1..Len(pl) |-> 0]]

\* mutant: every section is built over the lists of the first one
RowRefNoBase(base, pl, key) == LastIndex(pl, key)

RowRef(base, pl, key) == base + LastIndex(pl, key)

NewDict(base, pl) == [key \in Range(pl) |-> RowRef(base, pl, key)]

\* mutant: the loop as "for k in range(n - 1)"
RECURSIVE CountItemsSkipLast(_, _, _, _)
CountItemsSkipLast(ls, d, items, k) ==
    IF k >= Len(items) - 1 THEN ls
    ELSE LET key == items[k + 1]
         IN  IF key \in DOMAIN d
             THEN CountItemsSkipLast([ls EXCEPT ![d[key]][k + 1] = @ + 1], d, items, k + 1)
             ELSE CountItemsSkipLast(ls, d, items, k + 1)

\* mutant: a line with an unknown token counts nothing
RECURSIVE CountItemsAllKnown(_, _, _, _)
CountItemsAllKnown(ls, d, items, k) ==
    IF k >= Len(items) \/ \E j \in 1..Len(items) : items[j] \notin DOMAIN d THEN ls
    ELSE CountItemsAllKnown([ls EXCEPT ![d[items[k + 1]]][k + 1] = @ + 1], d, items, k + 1)

\* the loop "for k in range(n)" from k (0-based) on, over the heap of lists ls:
\* if key in current_section: current_section[key][k] += 1
RECURSIVE CountItems(_, _, _, _)
CountItems(ls, d, items, k) ==
    IF k >= Len(items) THEN ls
    ELSE LET key == items[k + 1]
         IN  IF key \in DOMAIN d
             THEN CountItems([ls EXCEPT ![d[key]][k + 1] = @ + 1], d, items, k + 1)
             ELSE CountItems(ls, d, items, k + 1)

\* mutant: "if len(items) > n: continue"
IsCountedAtMost(raw, m) ==
    LET line == Strip(raw)
    IN  /\ line # <<>>
        /\ ~StartsWith(line, Hash)
        /\ StartsWith(line, LPrefix)
        /\ Content(line) # <<>>
        /\ Len(Split(Content(line))) <= m

\* mutant: a line with a repeated item is skipped as well
IsCountedDistinct(raw, m) ==
    LET line == Strip(raw)
    IN  /\ line # <<>>
        /\ ~StartsWith(line, Hash)
        /\ StartsWith(line, LPrefix)
        /\ Content(line) # <<>>
        /\ Len(Split(Content(line))) = m
        /\ Cardinality(Range(Split(Content(line)))) = m

\* mutant: a line with empty brackets goes on to the counting instead of "continue"
IsCountedEmpty(raw, m) ==
    LET line == Strip(raw)
    IN  /\ line # <<>>
        /\ ~StartsWith(line, Hash)
        /\ StartsWith(line, LPrefix)
        /\ \/ Content(line) = <<>>
           \/ Len(Split(Content(line))) = m

\* whether the body loop counts the (raw) line as a shuffle of n items
IsCounted(raw, m) ==
    LET line == Strip(raw)
    IN  /\ line # <<>>
        /\ ~StartsWith(line, Hash)
        /\ StartsWith(line, LPrefix)
        /\ Content(line) # <<>>
        /\ Len(Split(Content(line))) = m

\* mutant: the section is sealed one shuffle late
SectionFullLate(count, size) == count = size + 1

\* mutant: the section is sealed one trial early
SectionFullEarly(count, size) == count = size - 1

\* mutant: the final section is appended whatever it holds
HasDataAlways(count) == count >= 0

\* line 101: the current section has reached the section size
SectionFull(count, size) == count = size

\* line 106: the final section has any data
HasData(count) == count > 0

n == Len(possibility_list)

\* the value of the dict d (a reference) in the heaps ls and ds: key -> sequence of counts
Table(ls, ds, d) == [key \in DOMAIN ds[d] |-> ls[ds[d][key]]]

\* a result variable before the function is called
Unset == [status |-> "unset", value |-> <<>>]

\* the caller has just called parse_shuffle_file and has no result yet
CallerInit ==
    /\ step = "parse"
    /\ history = <<>>
    /\ calls = <<>>
    /\ fixed_counts = Unset
    /\ error_metrics = Unset
    /\ chi_results = Unset

\* entry of parse_shuffle_file (lines 24-29) in a process with an empty heap
ParseInit ==
    /\ pc = "start"
    /\ possibility_list = <<>>
    /\ sections = <<>>
    /\ current_section = 0
    /\ current_count = 0
    /\ start_index = 0
    /\ pos = 0
    /\ lists = <<>>
    /\ dicts = <<>>
    /\ accepted = <<>>

Init ==
    /\ lines \in Logs
    /\ section_size \in 0..MaxSectionSize
    /\ ParseInit
    /\ CallerInit

\* lines 33-53: no possibility list in the header: return ([], [])
HeaderMissing ==
    /\ pc = "start"
    /\ HeaderScan(lines, 1) = <<>>
    /\ pc' = "done"
    /\ UNCHANGED <<lines, section_size, possibility_list, sections, current_section,
                   current_count, start_index, pos, lists, dicts, accepted>>

\* lines 33-72: the possibility list is found; first section, start index
HeaderFound ==
    /\ pc = "start"
    /\ HeaderScan(lines, 1) # <<>>
    /\ possibility_list' = HeaderScan(lines, 1)
    /\ lists' = lists \o NewRows(possibility_list')
    /\ dicts' = Append(dicts, NewDict(Len(lists), possibility_list'))
    /\ current_section' = Len(dicts) + 1
    /\ current_count' = 0
    /\ start_index' = FindStartIndex(lines)
    /\ pos' = start_index'
    /\ pc' = "body"
    /\ UNCHANGED <<lines, section_size, sections, accepted>>

\* lines 76-104: one iteration of the body loop
ProcessLine ==
    /\ pc = "body"
    /\ pos < Len(lines)
    /\ pos' = pos + 1
    /\ IF IsCounted(lines[pos + 1], n)
       THEN LET items   == Split(Content(Strip(lines[pos + 1])))
                counted == CountItems(lists, dicts[current_section], items, 0)
            IN  /\ accepted' = Append(accepted, [line |-> pos, sec |-> Len(sections) + 1])
                /\ IF SectionFull(current_count + 1, section_size)
                   THEN /\ sections' = Append(sections, current_section)
                        /\ lists' = counted \o NewRows(possibility_list)
                        /\ dicts' = Append(dicts, NewDict(Len(counted), possibility_list))
                        /\ current_section' = Len(dicts) + 1
                        /\ current_count' = 0
                   ELSE /\ lists' = counted
                        /\ current_count' = current_count + 1
                        /\ UNCHANGED <<sections, dicts, current_section>>
       ELSE UNCHANGED <<sections, current_section, current_count, lists, dicts, accepted>>
    /\ UNCHANGED <<lines, section_size, pc, possibility_list, start_index>>

\* lines 105-109: append the final section if it has any data, and return
Finish ==
    /\ pc = "body"
    /\ pos >= Len(lines)
    /\ sections' = IF HasData(current_count) THEN Append(sections, current_section) ELSE sections
    /\ pc' = "done"
    /\ UNCHANGED <<lines, section_size, possibility_list, current_section, current_count,
                   start_index, pos, lists, dicts, accepted>>

\* parse_shuffle_file runs alone: the caller waits
Next ==
    \/ HeaderMissing /\ UNCHANGED cvars
    \/ HeaderFound /\ UNCHANGED cvars
    \/ ProcessLine /\ UNCHANGED cvars
    \/ Finish /\ UNCHANGED cvars

Spec == Init /\ [][Next]_allvars

---------------------------------------------------------------------------
(* Views used by the properties *)

\* the section sequence as returned: the value of each section in the heap
Output == [s \in 1..Len(sections) |-> Table(lists, dicts, sections[s])]

\* the tokens of the counted line with 0-based index i
ItemsOf(i) == Split(Content(Strip(lines[i + 1])))

\* the entries of the history that went to output section s
TrialsOf(s) == {i \in 1..Len(accepted) : accepted[i].sec = s}

\* the number of trials accepted into output section s
TrialsIn(s) == Cardinality(TrialsOf(s))

\* sum over the symbols in keys of tab[symbol][k]
RECURSIVE SumAt(_, _, _)
SumAt(tab, keys, k) ==
    IF keys = {} THEN 0
    ELSE LET x == CHOOSE x \in keys : TRUE
         IN  tab[x][k] + SumAt(tab, keys \ {x}, k)

\* the trials of section s whose token at position k (1-based) is in the possibility list
KnownAt(s, k) ==
    {i \in TrialsOf(s) : ItemsOf(accepted[i].line)[k] \in Range(possibility_list)}

Returned == pc = "done"

---------------------------------------------------------------------------
(* C1 *)

\* C1 as stated: for section_size >= 1, in every section of the output and at
\* every position k, the counts of all symbols at k add up to the number of
\* trials accepted into that section.
C1_Original ==
    section_size >= 1 =>
        \A s \in 1..Len(sections) : \A k \in 1..n :
            SumAt(Output[s], DOMAIN Output[s], k) = TrialsIn(s)

\* C1 amended: for section_size >= 1, in every section of the output and at
\* every position k, the counts of all symbols at k add up to the number of
\* trials accepted into that section whose token at k is in the possibility
\* list; so the sum never exceeds the number of trials, and equals it when
\* every trial of the section has a known symbol at k.
C1_PositionSums ==
    section_size >= 1 =>
        \A s \in 1..Len(sections) : \A k \in 1..n :
            /\ SumAt(Output[s], DOMAIN Output[s], k) = Cardinality(KnownAt(s, k))
            /\ SumAt(Output[s], DOMAIN Output[s], k) <= TrialsIn(s)
            /\ (KnownAt(s, k) = TrialsOf(s)
                  => SumAt(Output[s], DOMAIN Output[s], k) = TrialsIn(s))

\* a returned output with a section of two trials, one of them with an unknown token
C1_Witness ==
    /\ Returned
    /\ section_size >= 1
    /\ \E s \in 1..Len(sections) : \E k \in 1..n :
          /\ TrialsIn(s) = 2
          /\ Cardinality(KnownAt(s, k)) = 1

---------------------------------------------------------------------------
(* C2 *)

\* C2: for section_size >= 1, every section of the returned output but the
\* last holds exactly section_size accepted trials, and the last one holds at
\* least 1 and at most section_size.
C2_SectionSizes ==
    (Returned /\ section_size >= 1) =>
        \A s \in 1..Len(sections) :
            IF s < Len(sections)
            THEN TrialsIn(s) = section_size
            ELSE TrialsIn(s) >= 1 /\ TrialsIn(s) <= section_size

\* a returned output of a full section followed by a short one
C2_Witness ==
    /\ Returned
    /\ section_size = 2
    /\ Len(sections) = 2
    /\ TrialsIn(1) = 2
    /\ TrialsIn(2) = 1

---------------------------------------------------------------------------
(* C3 *)

\* ceil(t / size) for size >= 1
CeilDiv(t, size) == (t + size - 1) \div size

\* C3: for section_size >= 1, the returned output has exactly
\* ceil(T / section_size) sections, T the number of accepted trials: none for
\* T = 0, and no trailing all-zero section when T is a multiple of section_size.
C3_SectionCount ==
    (Returned /\ section_size >= 1) =>
        /\ Len(sections) = CeilDiv(Len(accepted), section_size)
        /\ \A s \in 1..Len(sections) : TrialsIn(s) > 0

\* a parse of a found header that returns with T a positive multiple of section_size
C3_Witness ==
    /\ Returned
    /\ section_size = 2
    /\ Len(accepted) = 2
    /\ Len(sections) = 1
    /\ current_count = 0

---------------------------------------------------------------------------
(* The lines of LineSet as a reader of the format sees them *)

TokA == <<"A">>
TokB == <<"B">>
TokX == <<"X">>

\* the lines of the form l = [ tokens ], closing bracket included
FormLines == {LineAB, LineBA, LineAX, LineAA, LineABA, LineEmpty}

\* the tokens written between the brackets of a line of FormLines
Tokens(line) ==
    CASE line = LineAB    -> <<TokA, TokB>>
      [] line = LineBA    -> <<TokB, TokA>>
      [] line = LineAX    -> <<TokA, TokX>>
      [] line = LineAA    -> <<TokA, TokA>>
      [] line = LineABA   -> <<TokA, TokB, TokA>>
      [] line = LineEmpty -> <<>>

\* the body loop is about to process a line
AtBodyLine == pc = "body" /\ pos < Len(lines)

\* the step leaves the current section, the counter and the output as they are
\* and moves on to the next line
LineDropped ==
    /\ lists' = lists
    /\ dicts' = dicts
    /\ current_section' = current_section
    /\ current_count' = current_count
    /\ sections' = sections
    /\ accepted' = accepted
    /\ pc' = "body"
    /\ pos' = pos + 1

\* the step counts the line as one more trial of the current section
LineAccepted ==
    /\ accepted' = Append(accepted, [line |-> pos, sec |-> Len(sections) + 1])
    /\ \/ current_count' = current_count + 1 /\ sections' = sections
       \/ current_count' = 0 /\ sections' = Append(sections, current_section)
    /\ pos' = pos + 1

---------------------------------------------------------------------------
(* C4 *)

\* C4: a body line l = [ tokens ] whose token count differs from n is dropped
\* silently: no cell changes, the trial counter does not advance, no section is
\* appended, and the scan goes on with the next line.
C4_WrongCountDropped ==
    [][(AtBodyLine /\ lines[pos + 1] \in FormLines /\ Len(Tokens(lines[pos + 1])) # n)
          => LineDropped]_vars

\* a line of three tokens was dropped while a section of two-token trials was
\* being filled, and the line after it has been counted
C4_Witness ==
    /\ pc = "body"
    /\ n = 2
    /\ pos >= start_index + 3
    /\ lines[pos - 1] = LineABA
    /\ Len(accepted) = 2
    /\ accepted[1].line = pos - 3
    /\ accepted[2].line = pos - 1
    /\ section_size >= 1

---------------------------------------------------------------------------
(* C5 *)

\* C5: processing a body line l = [ tokens ] with exactly n tokens adds one to
\* exactly the cells (token at k, k) whose token is a key of the section; a
\* token that is not in the possibility list adds nothing at its position,
\* creates no key, and the other positions of the line are still counted.
C5_CountsKnownTokens ==
    [][(AtBodyLine /\ lines[pos + 1] \in FormLines /\ Len(Tokens(lines[pos + 1])) = n)
          => LET d     == current_section
                 items == Tokens(lines[pos + 1])
                 old   == Table(lists, dicts, d)
                 new   == Table(lists', dicts', d)
             IN  /\ DOMAIN new = Range(possibility_list)
                 /\ DOMAIN new = DOMAIN old
                 /\ \A key \in DOMAIN old : \A k \in 1..n :
                       new[key][k] = old[key][k] + (IF items[k] = key THEN 1 ELSE 0)]_vars

\* possibility list [A, B], trial l = [A X]: only section["A"][0] is incremented
C5_Witness ==
    /\ pc = "body"
    /\ possibility_list = <<TokA, TokB>>
    /\ pos = start_index + 1
    /\ lines[pos] = LineAX
    /\ current_count = 1
    /\ Table(lists, dicts, current_section) = (TokA :> <<1, 0>> @@ TokB :> <<0, 0>>)

---------------------------------------------------------------------------
(* C6 *)

Occurrences(seq, x) == Cardinality({i \in 1..Len(seq) : seq[i] = x})

IsPermutation(a, b) ==
    /\ Len(a) = Len(b)
    /\ \A x \in Range(a) \cup Range(b) : Occurrences(a, x) = Occurrences(b, x)

\* C6 as stated: every trial accepted into a section is a permutation of the
\* possibility list (a line with a duplicate or an unknown symbol is discarded).
C6_Original ==
    \A i \in 1..Len(accepted) : IsPermutation(ItemsOf(accepted[i].line), possibility_list)

\* C6 amended: a body line l = [ tokens ] is accepted as a trial exactly when it
\* has n tokens, also when a symbol is repeated or unknown: it then advances
\* the trial counter; only a token count other than n discards the line.
C6_AcceptedIffCount ==
    [][(AtBodyLine /\ lines[pos + 1] \in FormLines)
          => IF Len(Tokens(lines[pos + 1])) = n
             THEN LineAccepted
             ELSE accepted' = accepted /\ current_count' = current_count]_vars

\* with possibility list [A, B], l = [A A] and l = [A X] have both been accepted
C6_Witness ==
    /\ possibility_list = <<TokA, TokB>>
    /\ \E i, j \in 1..Len(accepted) :
          /\ lines[accepted[i].line + 1] = LineAA
          /\ lines[accepted[j].line + 1] = LineAX

---------------------------------------------------------------------------
(* The header of a log as a reader of the format sees it *)

\* the lines that begin with "l = ["
BracketLines == FormLines \cup {LineUnclosed}

\* 1-based index of the first line of ls in the set S, Len(ls) + 1 when there is none
FirstIn(ls, S) ==
    IF \E i \in 1..Len(ls) : ls[i] \in S
    THEN CHOOSE i \in 1..Len(ls) : ls[i] \in S /\ \A j \in 1..(i - 1) : ls[j] \notin S
    ELSE Len(ls) + 1

\* index of the "# start shuffle" line that ends the header, Len(lines) + 1 when there is none
MarkerIndex == FirstIn(lines, {LineMarker})

\* index of the first line beginning with "l = [", Len(lines) + 1 when there is none
BracketIndex == FirstIn(lines, BracketLines)

---------------------------------------------------------------------------
(* C7 *)

\* C7 as stated: every line counted as a trial lies strictly after a line
\* holding the start-shuffle marker (as a comment or not), and the header line
\* that supplied the possibility list is never counted.  Stated for the logs
\* whose header line is well formed and for section_size >= 1.
C7_Original ==
    (section_size >= 1 /\ BracketIndex <= Len(lines) /\ lines[BracketIndex] \in FormLines) =>
        \A i \in 1..Len(accepted) :
            /\ accepted[i].line + 1 # BracketIndex
            /\ \E j \in 1..accepted[i].line : lines[j] \in {LineMarker, LineTextMarker}

---------------------------------------------------------------------------
(* C8 *)

\* no line beginning with "l = [" and holding a token comes before the marker
\* (before the end of the log when there is no marker)
NoHeaderLine ==
    \A i \in 1..(MarkerIndex - 1) : i <= Len(lines) => lines[i] \notin (BracketLines \ {LineEmpty})

---------------------------------------------------------------------------
(* C9 *)

\* the header line: the first line beginning with "l = [", if it comes before the marker
HasHeaderLine == BracketIndex < MarkerIndex

---------------------------------------------------------------------------
(* C10 *)

\* the list references held by the dict d
RowsOf(ds, d) == {ds[d][key] : key \in DOMAIN ds[d]}

\* C10: a section in the output sequence stays in it and none of its cells
\* changes any more; a step changes lists of the current section only, which is
\* not in the output; a symbol that is not on the counted line keeps its vector;
\* the section started after a sealing is all zero.
C10_SealedUnchanged ==
    [][/\ \A s \in 1..Len(sections) :
             /\ Len(sections') >= s
             /\ sections'[s] = sections[s]
             /\ Table(lists', dicts', sections[s]) = Table(lists, dicts, sections[s])
       /\ \A r \in 1..Len(lists) :
             lists'[r] # lists[r] =>
                 /\ r \in RowsOf(dicts, current_section)
                 /\ \A s \in 1..Len(sections) : r \notin RowsOf(dicts, sections[s])
       /\ AtBodyLine =>
             \A key \in DOMAIN dicts[current_section] :
                 key \notin Range(ItemsOf(pos)) =>
                     Table(lists', dicts', current_section)[key]
                         = Table(lists, dicts, current_section)[key]
       /\ Len(sections') > Len(sections) /\ pc' = "body" =>
             \A key \in DOMAIN dicts'[current_section'] : \A k \in 1..n :
                 Table(lists', dicts', current_section')[key][k] = 0]_vars

\* a trial has been counted into the current section after a section was sealed
C10_Witness ==
    /\ pc = "body"
    /\ section_size >= 1
    /\ Len(sections) >= 1
    /\ current_count >= 1
    /\ Table(lists, dicts, sections[1]) # Table(lists, dicts, current_section)

---------------------------------------------------------------------------
(* Repeated calls of parse_shuffle_file in one process *)

\* most calls made by the process
MaxCalls == 3

\* the logs and the section sizes the process calls parse_shuffle_file with
CallLogs == {<<LineAB, LineMarker, LineBA, LineAX>>,
             <<LineMarker, LineAB>>,
             <<LineABA, LineAB, LineABA>>}

CallSizes == {1, 2}

\* mutant: the section list is module-level state that is never emptied
FreshSectionsKept(old) == old

\* line 25: sections = []
FreshSections(old) == <<>>

\* the steps of the running call
Parse == (HeaderMissing \/ HeaderFound \/ ProcessLine \/ Finish) /\ UNCHANGED cvars

\* lines 53 and 109: the call returns (possibility_list, sections) to its caller
Return ==
    /\ step = "parse"
    /\ pc = "done"
    /\ history' = Append(history, [lines            |-> lines,
                                   section_size     |-> section_size,
                                   possibility_list |-> possibility_list,
                                   sections         |-> Output])
    /\ step' = "returned"
    /\ UNCHANGED <<vars, calls, fixed_counts, error_metrics, chi_results>>

\* lines 4 and 24-29: the next call; the objects of the earlier calls stay in
\* the heap, and the names current_section, current_count, start_index are not
\* bound until lines 63-68 assign them
Invoke ==
    /\ step = "returned"
    /\ Len(history) < MaxCalls
    /\ lines' \in CallLogs
    /\ section_size' \in CallSizes
    /\ possibility_list' = <<>>
    /\ sections' = FreshSections(sections)
    /\ accepted' = <<>>
    /\ pc' = "start"
    /\ step' = "parse"
    /\ UNCHANGED <<current_section, current_count, start_index, pos, lists, dicts,
                   history, calls, fixed_counts, error_metrics, chi_results>>

InitCalls ==
    /\ lines \in CallLogs
    /\ section_size \in CallSizes
    /\ ParseInit
    /\ CallerInit

NextCalls == Parse \/ Return \/ Invoke

SpecCalls == InitCalls /\ [][NextCalls]_allvars

---------------------------------------------------------------------------
(* C11 *)

\* C11: any two calls of parse_shuffle_file made by one process with the same
\* log and the same section size, whatever was parsed in between, returned the
\* same possibility list and the same sections.
C11_SameInputSameResult ==
    \A i, j \in 1..Len(history) :
        (history[i].lines = history[j].lines
            /\ history[i].section_size = history[j].section_size)
        => /\ history[i].possibility_list = history[j].possibility_list
           /\ history[i].sections = history[j].sections

\* the first and the third call parsed the same log into sections, the second another log
C11_Witness ==
    /\ Len(history) = 3
    /\ history[1].lines = history[3].lines
    /\ history[1].section_size = history[3].section_size
    /\ history[2].lines # history[1].lines
    /\ Len(history[2].sections) >= 1
    /\ Len(history[3].sections) >= 2

---------------------------------------------------------------------------
(* scripts/shuffle/stats.py                                                *)
(*                                                                         *)
(* The functions take the sections by value here: secs is a sequence of    *)
(* tables key -> sequence of counts, pl the possibility list, ss the       *)
(* section size.  A result is [status, value]: status "ok" with the value  *)
(* returned, or the name of the exception raised.                          *)
(*                                                                         *)
(* Numbers that Python holds as floats are held exactly, as integers in a  *)
(* stated unit: with nn = len(possibility_list) and S = len(sections),     *)
(*   an error  observed - section_size / nn  is held as nn * error,        *)
(*   a mean of S errors is held as nn * S * mean (the sum of the above),   *)
(*   a standard deviation std of S > 1 errors is held as                   *)
(*   nn^2 * S * (S - 1) * std^2, which orders as std does.                 *)
(***************************************************************************)

Raised(exception) == [status |-> exception, value |-> <<>>]

Ok(value) == [status |-> "ok", value |-> value]

\* sum(seq)
RECURSIVE SeqSum(_)
SeqSum(seq) == IF seq = <<>> THEN 0 ELSE Head(seq) + SeqSum(Tail(seq))

\* mutant: the count at position 0 whatever the keyword
FixedCellFirst(section, key, i) == section[key][1]

\* mutant: the count of the keyword over all positions
FixedCellRowSum(section, key, i) == SeqSum(section[key])

\* stats.py line 18: section[key][i], i the (1-based) index of key in the possibility list
FixedCell(section, key, i) == section[key][i]

\* stats.py lines 16-18: the dict fixed after the loop over enumerate(possibility_list) from i on
RECURSIVE FixedOf(_, _, _, _)
FixedOf(section, pl, i, fixed) ==
    IF i > Len(pl) THEN fixed
    ELSE FixedOf(section, pl, i + 1,
                 [k \in DOMAIN fixed \cup {pl[i]} |->
                     IF k = pl[i] THEN FixedCell(section, pl[i], i) ELSE fixed[k]])

\* stats.compute_fixed_counts(sections, possibility_list)
ComputeFixedCounts(secs, pl) ==
    Ok([s \in 1..Len(secs) |-> FixedOf(secs[s], pl, 1, <<>>)])

\* max(seq), min(seq) of a non-empty sequence of integers
SeqMax(seq) == CHOOSE x \in Range(seq) : \A y \in Range(seq) : y <= x

SeqMin(seq) == CHOOSE x \in Range(seq) : \A y \in Range(seq) : x <= y

Abs(x) == IF x < 0 THEN -x ELSE x

\* mutant: max(seq) without the key
MaxByAbsSigned(seq) == SeqMax(seq)

\* max(seq, key=lambda x: abs(x)): the first element of the largest absolute value
MaxByAbs(seq) ==
    LET i == CHOOSE i \in 1..Len(seq) :
                 /\ \A j \in 1..Len(seq) : Abs(seq[j]) <= Abs(seq[i])
                 /\ \A j \in 1..(i - 1) : Abs(seq[j]) < Abs(seq[i])
    IN  seq[i]

\* stats.py lines 62-63: the errors of key at position p (1-based), one per section, times nn
ErrorsPos(secs, key, p, ss, nn) ==
    [s \in 1..Len(secs) |-> nn * secs[s][key][p] - ss]

\* mutant: statistics.stdev is applied to a single sample as well (it raises
\* StatisticsError there; held as -1)
StdOfAlways(errors) ==
    IF Len(errors) > 1
    THEN Len(errors) * SeqSum([i \in 1..Len(errors) |-> errors[i] * errors[i]])
            - SeqSum(errors) * SeqSum(errors)
    ELSE -1

\* mutant: the spread taken as the sum of the errors
StdOfSigned(errors) == IF Len(errors) > 1 THEN SeqSum(errors) ELSE 0

\* stats.py lines 68-69: statistics.stdev(errors_pos) if len(errors_pos) > 1 else 0
StdOf(errors) ==
    IF Len(errors) > 1
    THEN Len(errors) * SeqSum([i \in 1..Len(errors) |-> errors[i] * errors[i]])
            - SeqSum(errors) * SeqSum(errors)
    ELSE 0

\* mutant: sum(errors_pos) in place of statistics.mean(errors_pos)
PosStatsSum(errors) ==
    IF errors # <<>>
    THEN [max |-> SeqMax(errors), min |-> SeqMin(errors),
          mean |-> Len(errors) * SeqSum(errors), std |-> StdOf(errors)]
    ELSE [max |-> 0, min |-> 0, mean |-> 0, std |-> 0]

\* stats.py lines 64-74: the four statistics of one position
PosStats(errors) ==
    IF errors # <<>>
    THEN [max |-> SeqMax(errors), min |-> SeqMin(errors),
          mean |-> SeqSum(errors), std |-> StdOf(errors)]
    ELSE [max |-> 0, min |-> 0, mean |-> 0, std |-> 0]

\* stats.py line 77: max(max_by_pos)
OverallMax(max_by_pos) == SeqMax(max_by_pos)

\* stats.py lines 54-85: the metrics of one keyword
KeyMetrics(secs, key, ss, pl) ==
    LET by_pos == [p \in 1..Len(pl) |-> PosStats(ErrorsPos(secs, key, p, ss, Len(pl)))]
    IN  [max  |-> OverallMax([p \in 1..Len(pl) |-> by_pos[p].max]),
         min  |-> SeqMin([p \in 1..Len(pl) |-> by_pos[p].min]),
         mean |-> MaxByAbs([p \in 1..Len(pl) |-> by_pos[p].mean]),
         std  |-> SeqMax([p \in 1..Len(pl) |-> by_pos[p].std])]

\* stats.compute_distribution_error_metrics(sections, section_size, possibility_list);
\* line 50 divides by n = len(possibility_list)
ComputeErrorMetrics(secs, ss, pl) ==
    IF Len(pl) = 0 THEN Raised("ZeroDivisionError")
    ELSE Ok([key \in Range(pl) |-> KeyMetrics(secs, key, ss, pl)])

\* stats.py lines 101-103: the counts of key in every section and position, flattened
RECURSIVE Aggregated(_, _)
Aggregated(secs, key) ==
    IF secs = <<>> THEN <<>> ELSE Head(secs)[key] \o Aggregated(Tail(secs), key)

\* the observations handed to chisquare at line 105
Observed(secs, key) == Aggregated(secs, key)

\* scipy.stats.chisquare, ddof = 0: len(f_obs) - 1 degrees of freedom
DegreesOfFreedom(observed) == Len(observed) - 1

(***************************************************************************)
(* scipy.stats.chisquare(f_obs, f_exp) with f_exp = [section_size / nn]    *)
(* repeated (stats.py lines 99, 104, 105).  chi2 is held as the fraction   *)
(* num / den = sum((nn * obs - ss)^2) / (nn * ss); den = 0 is a division   *)
(* by zero inside numpy, which gives nan or inf and no exception.          *)
(* p_value is held by its class: "one" (chi2 = 0 and at least one degree   *)
(* of freedom), "below_one" (chi2 > 0), "nan" (no degree of freedom, or    *)
(* an expected frequency of zero).                                         *)
(***************************************************************************)
ChiSquare(observed, ss, nn) ==
    LET num == SeqSum([i \in 1..Len(observed) |->
                         (nn * observed[i] - ss) * (nn * observed[i] - ss)])
        den == nn * ss
        df  == DegreesOfFreedom(observed)
    IN  [chi2 |-> [num |-> num, den |-> den],
         p_value |-> IF df <= 0 \/ den = 0 THEN "nan"
                     ELSE IF num = 0 THEN "one" ELSE "below_one"]

\* scipy >= 1.9 raises ValueError when sum(f_obs) and sum(f_exp) disagree
\* (rtol 1e-8); older releases do not look.  True when the sums agree;
\* with both sums 0 the relative difference is nan and nothing is raised.
SumsAgree(observed, ss, nn) ==
    nn * SeqSum(observed) = Len(observed) * ss

\* stats.compute_chi_square(sections, section_size, possibility_list): the
\* results the installed scipy can give; line 99 divides by n
ComputeChiSquare(secs, ss, pl) ==
    IF Len(pl) = 0 THEN {Raised("ZeroDivisionError")}
    ELSE {Ok([key \in Range(pl) |-> ChiSquare(Observed(secs, key), ss, Len(pl))])}
         \cup IF \A key \in Range(pl) : SumsAgree(Observed(secs, key), ss, Len(pl))
              THEN {} ELSE {Raised("ValueError")}

---------------------------------------------------------------------------
(* scripts/shuffle/main.py: main()                                         *)
(*                                                                         *)
(* step is the position in main: "parse" while parse_shuffle_file runs,    *)
(* then "plot_fixed", "metrics", "chi", "report", and "exit" (main         *)
(* returned) or "raised" (an exception left main).  calls records every    *)
(* call of a function of stats or plotter with the arguments that the      *)
(* claims look at.                                                         *)
(***************************************************************************)

MaxMainBody == 2

\* the logs given to main: a header line, the marker and at most MaxMainBody
\* trial lines; and logs without a header line or without the marker
MainLogs ==
    {<<LineAB, LineMarker>> \o b :
        b \in SeqsUpTo({LineAB, LineBA, LineAX, LineAA}, MaxMainBody)}
    \cup {<<>>, <<LineComment>>, <<LineMarker, LineAB>>, <<LineAB, LineBA>>}

\* mutant: main goes on whatever the list
NothingToAnalyzeNever(pl) == FALSE

\* main.py line 19: not possibility_list
NothingToAnalyze(pl) == pl = <<>>

\* main.py lines 19-21
MainNoList ==
    /\ step = "parse" /\ pc = "done"
    /\ NothingToAnalyze(possibility_list)
    /\ step' = "exit"
    /\ UNCHANGED <<vars, history, calls, fixed_counts, error_metrics, chi_results>>

\* main.py lines 22-31
MainFixed ==
    /\ step = "parse" /\ pc = "done"
    /\ ~NothingToAnalyze(possibility_list)
    /\ calls' = Append(calls, [fn |-> "compute_fixed_counts",
                               possibility_list |-> possibility_list])
    /\ fixed_counts' = ComputeFixedCounts(Output, possibility_list)
    /\ step' = IF possibility_list = <<>> THEN "raised" ELSE "plot_fixed"
    /\ UNCHANGED <<vars, history, error_metrics, chi_results>>

\* main.py lines 34-36
MainPlotFixed ==
    /\ step = "plot_fixed"
    /\ calls' = Append(calls, [fn |-> "plot_fixed_error_graph",
                               section_size |-> section_size,
                               possibility_list |-> possibility_list])
    /\ step' = "metrics"
    /\ UNCHANGED <<vars, history, fixed_counts, error_metrics, chi_results>>

\* main.py lines 39-40
MainMetrics ==
    /\ step = "metrics"
    /\ calls' = Append(calls, [fn |-> "compute_distribution_error_metrics",
                               section_size |-> section_size,
                               possibility_list |-> possibility_list])
    /\ error_metrics' = ComputeErrorMetrics(Output, section_size, possibility_list)
    /\ step' = IF error_metrics'.status = "ok" THEN "chi" ELSE "raised"
    /\ UNCHANGED <<vars, history, fixed_counts, chi_results>>

\* main.py lines 41-42
MainChi ==
    /\ step = "chi"
    /\ calls' = Append(calls, [fn |-> "compute_chi_square",
                               section_size |-> section_size,
                               possibility_list |-> possibility_list])
    /\ chi_results' \in ComputeChiSquare(Output, section_size, possibility_list)
    /\ step' = IF chi_results'.status = "ok" THEN "report" ELSE "raised"
    /\ UNCHANGED <<vars, history, fixed_counts, error_metrics>>

\* main.py lines 44-54; plotter.py line 130 divides by expected = section_size / n
MainPlotMetrics ==
    /\ step = "report"
    /\ calls' = Append(calls, [fn |-> "plot_distribution_error_metrics_filled",
                               section_size |-> section_size,
                               possibility_list |-> possibility_list])
    /\ step' = IF section_size = 0 THEN "raised" ELSE "exit"
    /\ UNCHANGED <<vars, history, fixed_counts, error_metrics, chi_results>>

InitMain ==
    /\ lines \in MainLogs
    /\ section_size \in 0..MaxSectionSize
    /\ ParseInit
    /\ CallerInit

NextMain ==
    \/ Parse
    \/ MainNoList
    \/ MainFixed
    \/ MainPlotFixed
    \/ MainMetrics
    \/ MainChi
    \/ MainPlotMetrics

SpecMain == InitMain /\ [][NextMain]_allvars

\* the analyzers of stats.py
Analyzers ==
    {"compute_fixed_counts", "compute_distribution_error_metrics", "compute_chi_square"}

\* the functions of stats.py and plotter.py called so far
Called == {calls[i].fn : i \in 1..Len(calls)}

---------------------------------------------------------------------------
(* C12 *)

NoDuplicates(pl) == \A i, j \in 1..Len(pl) : pl[i] = pl[j] => i = j

\* C12: once main has called compute_fixed_counts, fixed_counts holds exactly
\* one map per returned section, in section order, and the map of section s
\* takes every symbol of the possibility list (and nothing else) to the
\* section's count of that symbol at the symbol's own index in the list.
C12_FixedCounts ==
    "compute_fixed_counts" \in Called =>
        /\ fixed_counts.status = "ok"
        /\ NoDuplicates(possibility_list)
        /\ DOMAIN fixed_counts.value = 1..Len(Output)
        /\ \A s \in 1..Len(Output) :
              /\ DOMAIN fixed_counts.value[s] = Range(possibility_list)
              /\ \A i \in 1..n :
                    fixed_counts.value[s][possibility_list[i]]
                        = Output[s][possibility_list[i]][i]

\* the scenario: list [A, B], section size 2, trials [A B] and [B A]
C12_Witness ==
    /\ "compute_fixed_counts" \in Called
    /\ lines = <<LineAB, LineMarker, LineAB, LineBA>>
    /\ section_size = 2
    /\ Output = <<(TokA :> <<1, 1>> @@ TokB :> <<1, 1>>)>>
    /\ fixed_counts.value = <<(TokA :> 1 @@ TokB :> 1)>>

---------------------------------------------------------------------------
(* C13 *)

\* sum over the symbols in keys of fixed[symbol]
RECURSIVE SumFixed(_, _)
SumFixed(fixed, keys) ==
    IF keys = {} THEN 0
    ELSE LET x == CHOOSE x \in keys : TRUE
         IN  fixed[x] + SumFixed(fixed, keys \ {x})

\* C13 as stated: in every section the fixed counts of all symbols together
\* never exceed the number of trials of the section (section sizes from 1).
C13_Original ==
    ("compute_fixed_counts" \in Called /\ section_size >= 1) =>
        \A s \in 1..Len(Output) :
            SumFixed(fixed_counts.value[s], Range(possibility_list)) <= TrialsIn(s)

\* C13: in every section the fixed count of each symbol never exceeds the
\* number of trials of the section, and the fixed counts of all symbols
\* together never exceed n times that number.
C13_FixedCountBound ==
    "compute_fixed_counts" \in Called =>
        \A s \in 1..Len(Output) :
            /\ \A key \in Range(possibility_list) :
                  fixed_counts.value[s][key] <= TrialsIn(s)
            /\ SumFixed(fixed_counts.value[s], Range(possibility_list))
                  <= n * TrialsIn(s)

\* two trials [A B] in one section: both symbols stay home in both
C13_Witness ==
    /\ "compute_fixed_counts" \in Called
    /\ Len(Output) = 1
    /\ TrialsIn(1) = 2
    /\ fixed_counts.value[1][TokA] = 2
    /\ SumFixed(fixed_counts.value[1], Range(possibility_list)) = 4

---------------------------------------------------------------------------
(* The functions of stats.py called directly                               *)
(*                                                                         *)
(* The arguments are either what parse_shuffle_file returned for a log of  *)
(* StatLogs, or count tables laid out in the heap as the parser lays them  *)
(* out: at most MaxStatSections sections over a list of one or two         *)
(* symbols, every count at most MaxCount.  With two symbols the row of B   *)
(* mirrors the row of A, as in trials that are permutations; the row of A  *)
(* is free.  One function is called per behaviour.                         *)
(***************************************************************************)

MaxStatSections == 2
MaxCount == 2

StatLists == {<<TokA>>, <<TokA, TokB>>}

StatTables(pl) ==
    IF Len(pl) = 1
    THEN {(TokA :> <<a>>) : a \in 0..MaxCount}
    ELSE {(TokA :> <<a, b>> @@ TokB :> <<b, a>>) : a, b \in 0..MaxCount}

\* logs without a header line, and the log of the scenario of section 8
StatLogs ==
    {<<>>, <<LineBlank>>, <<LineComment, LineMarker>>, <<LineMarker, LineAB>>,
     <<LineEmpty, LineMarker, LineAB>>, <<LineAB, LineMarker, LineAB, LineBA>>}

\* the heap and the locals of parse_shuffle_file once it has returned pl and tabs
ReturnedWith(pl, tabs) ==
    /\ lines = <<>>
    /\ pc = "done"
    /\ possibility_list = pl
    /\ lists = [r \in 1..(Len(tabs) * Len(pl)) |->
                   tabs[((r - 1) \div Len(pl)) + 1][pl[((r - 1) % Len(pl)) + 1]]]
    /\ dicts = [s \in 1..Len(tabs) |-> NewDict((s - 1) * Len(pl), pl)]
    /\ sections = [s \in 1..Len(tabs) |-> s]
    /\ current_section = 0
    /\ current_count = 0
    /\ start_index = 0
    /\ pos = 0
    /\ accepted = <<>>

InitStats ==
    /\ section_size \in 0..MaxSectionSize
    /\ CallerInit
    /\ \/ lines \in StatLogs /\ ParseInit
       \/ \E pl \in StatLists : \E tabs \in SeqsUpTo(StatTables(pl), MaxStatSections) :
             ReturnedWith(pl, tabs)

\* stats.compute_fixed_counts(sections, possibility_list)
CallFixed ==
    /\ step = "parse" /\ pc = "done"
    /\ calls' = Append(calls, [fn |-> "compute_fixed_counts",
                               possibility_list |-> possibility_list])
    /\ fixed_counts' = ComputeFixedCounts(Output, possibility_list)
    /\ step' = "called"
    /\ UNCHANGED <<vars, history, error_metrics, chi_results>>

\* stats.compute_distribution_error_metrics(sections, section_size, possibility_list)
CallMetrics ==
    /\ step = "parse" /\ pc = "done"
    /\ calls' = Append(calls, [fn |-> "compute_distribution_error_metrics",
                               section_size |-> section_size,
                               possibility_list |-> possibility_list])
    /\ error_metrics' = ComputeErrorMetrics(Output, section_size, possibility_list)
    /\ step' = "called"
    /\ UNCHANGED <<vars, history, fixed_counts, chi_results>>

\* stats.compute_chi_square(sections, section_size, possibility_list)
CallChi ==
    /\ step = "parse" /\ pc = "done"
    /\ calls' = Append(calls, [fn |-> "compute_chi_square",
                               section_size |-> section_size,
                               possibility_list |-> possibility_list])
    /\ chi_results' \in ComputeChiSquare(Output, section_size, possibility_list)
    /\ step' = "called"
    /\ UNCHANGED <<vars, history, fixed_counts, error_metrics>>

NextStats ==
    \/ Parse
    \/ CallFixed
    \/ CallMetrics
    \/ CallChi

SpecStats == InitStats /\ [][NextStats]_allvars

\* compute_distribution_error_metrics has returned its metrics
MetricsReturned ==
    /\ "compute_distribution_error_metrics" \in Called
    /\ error_metrics.status = "ok"

\* the statistics of the errors of key at position p (1-based) over the sections
StatsAt(key, p) == PosStats(ErrorsPos(Output, key, p, section_size, n))

---------------------------------------------------------------------------
(* C14 *)

\* C14: for every symbol the returned max is the largest per-position
\* maximum, the returned min the smallest per-position minimum, the returned
\* std the largest per-position standard deviation, and the returned mean the
\* per-position mean of the lowest position among those whose mean has the
\* largest absolute value.
C14_Reduction ==
    MetricsReturned =>
        \A key \in Range(possibility_list) :
            LET m == error_metrics.value[key]
            IN  /\ \E p \in 1..n : m.max = StatsAt(key, p).max
                /\ \A p \in 1..n : StatsAt(key, p).max <= m.max
                /\ \E p \in 1..n : m.min = StatsAt(key, p).min
                /\ \A p \in 1..n : m.min <= StatsAt(key, p).min
                /\ \E p \in 1..n : m.std = StatsAt(key, p).std
                /\ \A p \in 1..n : StatsAt(key, p).std <= m.std
                /\ \E p \in 1..n :
                      /\ m.mean = StatsAt(key, p).mean
                      /\ \A q \in 1..n :
                            Abs(StatsAt(key, q).mean) <= Abs(m.mean)
                      /\ \A q \in 1..(p - 1) :
                            Abs(StatsAt(key, q).mean) < Abs(m.mean)

\* two sections, the means of A at the two positions are -m and +m: the
\* negative one, at the lower position, is returned; the per-position maxima
\* and deviations differ
C14_Witness ==
    /\ MetricsReturned
    /\ Len(Output) = 2
    /\ n = 2
    /\ StatsAt(TokA, 1).mean < 0
    /\ StatsAt(TokA, 2).mean = -StatsAt(TokA, 1).mean
    /\ error_metrics.value[TokA].mean = StatsAt(TokA, 1).mean
    /\ StatsAt(TokA, 1).max < StatsAt(TokA, 2).max
    /\ StatsAt(TokA, 1).std # StatsAt(TokA, 2).std

---------------------------------------------------------------------------
(* C15 *)

\* C15: for every symbol of a non-empty possibility list the returned
\* metrics have max >= min and std >= 0, whatever the sections and the
\* section size, with no section at all included.
C15_MaxMinStd ==
    ("compute_distribution_error_metrics" \in Called /\ possibility_list # <<>>) =>
        /\ error_metrics.status = "ok"
        /\ DOMAIN error_metrics.value = Range(possibility_list)
        /\ \A key \in Range(possibility_list) :
              /\ error_metrics.value[key].max >= error_metrics.value[key].min
              /\ error_metrics.value[key].std >= 0

\* returned for counts that differ between sections and positions
C15_Witness ==
    /\ MetricsReturned
    /\ Len(Output) = 2
    /\ error_metrics.value[TokA].max > error_metrics.value[TokA].min
    /\ error_metrics.value[TokA].min < 0
    /\ error_metrics.value[TokA].std > 0

---------------------------------------------------------------------------
(* C16 *)

\* C16: with fewer than two sections compute_distribution_error_metrics
\* returns, for a non-empty possibility list, std = 0 for every symbol
\* without raising; with exactly one section max, min and mean are errors
\* of that section: max the largest and min the smallest of the symbol's
\* errors over the positions, mean the one of the largest absolute value.
C16_DegenerateVariance ==
    ("compute_distribution_error_metrics" \in Called
        /\ possibility_list # <<>> /\ Len(Output) < 2) =>
        /\ error_metrics.status = "ok"
        /\ \A key \in Range(possibility_list) :
              LET m == error_metrics.value[key]
                  e == [p \in 1..n |-> n * Output[1][key][p] - section_size]
              IN  /\ m.std = 0
                  /\ Len(Output) = 1 =>
                        /\ m.max \in Range(e) /\ \A p \in 1..n : e[p] <= m.max
                        /\ m.min \in Range(e) /\ \A p \in 1..n : m.min <= e[p]
                        /\ m.mean \in Range(e)
                        /\ \A p \in 1..n : Abs(e[p]) <= Abs(m.mean)

\* one section whose errors differ between the positions
C16_Witness ==
    /\ MetricsReturned
    /\ Len(Output) = 1
    /\ n = 2
    /\ Output[1][TokA][1] # Output[1][TokA][2]
    /\ error_metrics.value[TokA].max > error_metrics.value[TokA].min
    /\ error_metrics.value[TokA].std = 0

---------------------------------------------------------------------------
(* C17 *)

\* every count of every symbol at every position of every section is
\* exactly section_size / n
Uniform ==
    \A s \in 1..Len(Output) : \A key \in Range(possibility_list) : \A p \in 1..n :
        n * Output[s][key][p] = section_size

\* compute_chi_square was called with a non-empty list
ChiCalled ==
    /\ "compute_chi_square" \in Called
    /\ possibility_list # <<>>

\* C17 as stated: on uniform counts chi2 == 0 and pValue == 1 for every
\* symbol (at least one section, section sizes from 1).
C17_Original ==
    (ChiCalled /\ Uniform /\ Len(Output) >= 1 /\ section_size >= 1) =>
        /\ chi_results.status = "ok"
        /\ \A key \in Range(possibility_list) :
              /\ chi_results.value[key].chi2.num = 0
              /\ chi_results.value[key].p_value = "one"

---------------------------------------------------------------------------
(* C18 *)

\* C18 as stated: called on the result of parsing a log with no header
\* match (empty possibility list, no section) with a section size of at
\* least 1, each of the three functions returns an empty result and does
\* not raise.
C18_Original ==
    (Returned /\ possibility_list = <<>> /\ Output = <<>> /\ section_size >= 1) =>
        /\ "compute_fixed_counts" \in Called => fixed_counts = Ok(<<>>)
        /\ "compute_distribution_error_metrics" \in Called => error_metrics = Ok(<<>>)
        /\ "compute_chi_square" \in Called => chi_results = Ok(<<>>)

---------------------------------------------------------------------------
(* C19 *)

\* C19: once parse_shuffle_file has returned an empty possibility list, main
\* has called no function of stats or plotter and never calls one: it is
\* still at the return of the parse or has returned itself.
C19_StopsEarly ==
    (Returned /\ possibility_list = <<>>) =>
        /\ calls = <<>>
        /\ step \in {"parse", "exit"}
        /\ fixed_counts = Unset /\ error_metrics = Unset /\ chi_results = Unset

\* main has returned after parsing a non-empty log without a header line
C19_Witness ==
    /\ Returned
    /\ possibility_list = <<>>
    /\ lines = <<LineMarker, LineAB>>
    /\ step = "exit"
    /\ calls = <<>>

---------------------------------------------------------------------------
(* C20 *)

\* C20 as stated: no analyzer is ever called by main with a section size
\* of 0 or with an empty possibility list.
C20_Original ==
    \A i \in 1..Len(calls) :
        calls[i].fn \in Analyzers =>
            /\ calls[i].possibility_list # <<>>
            /\ "section_size" \in DOMAIN calls[i] => calls[i].section_size # 0

---------------------------------------------------------------------------
(* The three functions of stats.py run over one parse result, in any order *)
(*                                                                         *)
(* parse_shuffle_file returns (Return records what it returned), then each *)
(* function is called at most once, in any order, on the same objects.     *)
(* What a function writes goes to objects it creates itself; the lists it  *)
(* creates are allocated above the heap and dropped when it returns.       *)
(***************************************************************************)

\* list.extend(items) on the list object ref
Extend(ls, ref, items) == [ls EXCEPT ![ref] = @ \o items]

\* mutant: aggregated = sections[0][key], the list object of the first section
AggregatedRefFirstRow(ls, ds, secs, key) ==
    IF secs = <<>> THEN Len(ls) + 1 ELSE ds[secs[1]][key]

\* stats.py line 101: aggregated = [], a new list object
AggregatedRef(ls, ds, secs, key) == Len(ls) + 1

\* stats.py lines 102-103: aggregated.extend(section[key]) for the sections from s on
RECURSIVE ExtendAll(_, _, _, _, _, _)
ExtendAll(ls, ds, secs, key, agg, s) ==
    IF s > Len(secs) THEN ls
    ELSE ExtendAll(Extend(ls, agg, ls[ds[secs[s]][key]]), ds, secs, key, agg, s + 1)

\* stats.py lines 100-103: the heap after the loop over the keys from index i on
RECURSIVE AggregateAll(_, _, _, _, _)
AggregateAll(ls, ds, secs, pl, i) ==
    IF i > Len(pl) THEN ls
    ELSE LET agg  == AggregatedRef(ls, ds, secs, pl[i])
             heap == IF agg > Len(ls) THEN Append(ls, <<>>) ELSE ls
         IN  AggregateAll(ExtendAll(heap, ds, secs, pl[i], agg, 1), ds, secs, pl, i + 1)

\* the list objects that exist before and after compute_chi_square
HeapAfterChiSquare(ls, ds, secs, pl) ==
    SubSeq(AggregateAll(ls, ds, secs, pl, 1), 1, Len(ls))

\* stats.py lines 5-20: fixed_counts and every fixed are new objects holding integers
RunFixed ==
    /\ step = "returned"
    /\ "compute_fixed_counts" \notin Called
    /\ calls' = Append(calls, [fn |-> "compute_fixed_counts",
                               possibility_list |-> possibility_list])
    /\ fixed_counts' = ComputeFixedCounts(Output, possibility_list)
    /\ UNCHANGED <<vars, step, history, error_metrics, chi_results>>

\* stats.py lines 23-86: metrics and the per-position lists are new objects holding numbers
RunMetrics ==
    /\ step = "returned"
    /\ "compute_distribution_error_metrics" \notin Called
    /\ calls' = Append(calls, [fn |-> "compute_distribution_error_metrics",
                               section_size |-> section_size,
                               possibility_list |-> possibility_list])
    /\ error_metrics' = ComputeErrorMetrics(Output, section_size, possibility_list)
    /\ UNCHANGED <<vars, step, history, fixed_counts, chi_results>>

\* stats.py lines 89-107
RunChi ==
    /\ step = "returned"
    /\ "compute_chi_square" \notin Called
    /\ calls' = Append(calls, [fn |-> "compute_chi_square",
                               section_size |-> section_size,
                               possibility_list |-> possibility_list])
    /\ chi_results' \in ComputeChiSquare(Output, section_size, possibility_list)
    /\ lists' = HeapAfterChiSquare(lists, dicts, sections, possibility_list)
    /\ UNCHANGED <<lines, section_size, pc, possibility_list, sections,
                   current_section, current_count, start_index, pos, dicts,
                   accepted, step, history, fixed_counts, error_metrics>>

NextOrder ==
    \/ Parse
    \/ Return
    \/ RunFixed
    \/ RunMetrics
    \/ RunChi

SpecOrder == InitMain /\ [][NextOrder]_allvars

---------------------------------------------------------------------------
(* C21 *)

\* C21: after parse_shuffle_file has returned, however many of the three
\* functions have run and in whatever order, the sections and the
\* possibility list are what the parse returned, and each result obtained
\* is the function's result on what the parse returned.
C21_AnalyzersReadOnly ==
    step = "returned" =>
        LET r == history[1]
        IN  /\ Output = r.sections
            /\ possibility_list = r.possibility_list
            /\ "compute_fixed_counts" \in Called =>
                  fixed_counts = ComputeFixedCounts(r.sections, r.possibility_list)
            /\ "compute_distribution_error_metrics" \in Called =>
                  error_metrics
                      = ComputeErrorMetrics(r.sections, r.section_size, r.possibility_list)
            /\ "compute_chi_square" \in Called =>
                  chi_results
                      \in ComputeChiSquare(r.sections, r.section_size, r.possibility_list)

\* all three have run over two sections, compute_chi_square first
C21_Witness ==
    /\ step = "returned"
    /\ Len(calls) = 3
    /\ calls[1].fn = "compute_chi_square"
    /\ calls[3].fn = "compute_fixed_counts"
    /\ Len(Output) = 2
    /\ fixed_counts.status = "ok" /\ error_metrics.status = "ok" /\ chi_results.status = "ok"

---------------------------------------------------------------------------
(* C22 *)

\* the output section (1-based) of the i-th counted line (1-based) when
\* sections are filled in log order
SectionOfTrial(i, size) == ((i - 1) \div size) + 1

\* the counted lines (1-based in the history) that belong to section s by
\* that rule and carry key at position k (1-based)
TrialsWith(s, key, k) ==
    {i \in 1..Len(accepted) :
        /\ SectionOfTrial(i, section_size) = s
        /\ ItemsOf(accepted[i].line)[k] = key}

\* C22: for section_size >= 1 the counted lines are taken in log order, the
\* i-th of them (from 0) goes to output section floor(i / section_size), and
\* every cell of every output section counts exactly the lines of that
\* section; the output has a section for every counted line, so the trials of
\* all sections together are the counted lines.
C22_LogOrder ==
    (Returned /\ section_size >= 1) =>
        /\ \A i, j \in 1..Len(accepted) :
              i < j => accepted[i].line < accepted[j].line
        /\ \A i \in 1..Len(accepted) :
              /\ accepted[i].sec = SectionOfTrial(i, section_size)
              /\ accepted[i].sec \in 1..Len(Output)
        /\ \A s \in 1..Len(Output) : \A key \in Range(possibility_list) : \A k \in 1..n :
              Output[s][key][k] = Cardinality(TrialsWith(s, key, k))

\* three counted lines, section size 2: a full section and a short one with
\* different counts
C22_Witness ==
    /\ Returned
    /\ section_size = 2
    /\ Len(accepted) = 3
    /\ Len(Output) = 2
    /\ Output[1] # Output[2]
    /\ Output[2][TokB][1] = 1

---------------------------------------------------------------------------
(* C23 *)

\* a blank line, a comment line, a marker line, a line that does not start
\* with "l = [", and a line with empty brackets
SkippedLines == {LineBlank, LineComment, LineMarker, LineTextMarker, LineEmpty}

\* C23: in the body loop a blank line, a line beginning with "#" (a second
\* start-shuffle marker included), a line that does not start with "l = ["
\* and a line "l = [ ]" each leave the current section, the trial counter
\* and the output sequence unchanged, and the scan goes on.
C23_SkippedLines ==
    [][(AtBodyLine /\ lines[pos + 1] \in SkippedLines) => LineDropped]_vars

\* a second marker line has just been passed while a section holds one trial
C23_Witness ==
    /\ pc = "body"
    /\ section_size = 2
    /\ pos = start_index + 2
    /\ lines[start_index] = LineMarker
    /\ lines[pos] = LineMarker
    /\ current_count = 1
    /\ Len(accepted) = 1
    /\ sections = <<>>

---------------------------------------------------------------------------
(* C24 *)

\* C24: for every symbol the returned metrics satisfy min <= mean <= max.
\* mean is held times n times S and min, max times n, S the number of
\* sections, so the comparison is S * min <= held mean <= S * max; with no
\* section all three are 0.
C24_MeanWithinRange ==
    MetricsReturned =>
        \A key \in Range(possibility_list) :
            LET m == error_metrics.value[key]
            IN  IF Output = <<>>
                THEN m.min = 0 /\ m.mean = 0 /\ m.max = 0
                ELSE /\ Len(Output) * m.min <= m.mean
                     /\ m.mean <= Len(Output) * m.max

\* two sections, the mean of A strictly between its min and its max and not 0
C24_Witness ==
    /\ MetricsReturned
    /\ Len(Output) = 2
    /\ n = 2
    /\ 2 * error_metrics.value[TokA].min < error_metrics.value[TokA].mean
    /\ error_metrics.value[TokA].mean < 2 * error_metrics.value[TokA].max
    /\ error_metrics.value[TokA].mean # 0

---------------------------------------------------------------------------
(* C25 *)

\* every counted line is a permutation of the possibility list
AllPermutations ==
    \A i \in 1..Len(accepted) :
        IsPermutation(ItemsOf(accepted[i].line), possibility_list)

\* C25 as stated: when every accepted trial is a permutation of the
\* possibility list and section_size >= 1, for every symbol the observed
\* sequence handed to the chi-square test sums to the same total as the
\* expected sequence, number of cells times section_size / n (both sides
\* times n here), a short last section included.
C25_Original ==
    ("compute_chi_square" \in Called /\ AllPermutations /\ section_size >= 1) =>
        \A key \in Range(possibility_list) :
            n * SeqSum(Aggregated(Output, key))
                = Len(Aggregated(Output, key)) * section_size

====
